---------------------------- MODULE Spec2Model ----------------------------
(***************************************************************************)
(* Model of the lyrics enrichment pipeline (genius_lyrics_enrichment.py)   *)
(* and of the chart downloader (spotify-charts-csv-downloader.py).         *)
(*                                                                         *)
(* Python strings are sequences of one-character strings.  A Python value  *)
(* that may or may not be text (a spreadsheet cell, an Optional[str]) is a *)
(* record [kind, s]: kind "str" with the characters in s, kind "float"     *)
(* for the NaN of an empty cell, kind "none" for None.                     *)
(***************************************************************************)
EXTENDS Integers, Sequences, FiniteSets, TLC

VARIABLES
    \* ---- utility calls (SpecClean) ----
    call,          \* the pending call: [fn, a, b]
    ret,           \* its return value (a Python str, as a sequence)
    cpc,           \* "call" before the function ran, "ret" after, "idle"
    \* ---- enrichment run: main() of genius_lyrics_enrichment.py (Spec) ----
    pc,            \* position of main(); "failed" after an uncaught exception
    environ_token, \* os.getenv("GENIUS_ACCESS_TOKEN")
    input_exists,  \* os.path.exists(INPUT_FILE)
    df,            \* the table: [columns, rows]
    genius,        \* the provider session, None before authentication
    index,         \* rows the loop has finished
    lyrics,        \* what fetch_lyrics returned for the current row
    lyrics_list,   \* the lyrics column being built
    delay,         \* the last politeness delay, in tenths of a second
    output,        \* the table written to OUTPUT_FILE, None before
    error,         \* the exception that ended main(), "none" otherwise
    log,           \* observation: the fetches and delays so far, in order
    input,         \* observation: the table as it was read
    \* ---- chart download: main() of spotify-charts-csv-downloader.py (SpecCharts) ----
    dl_pc,         \* position of main()
    files,         \* the .csv files of the download folder: [name, mtime, data]
    clock,         \* the time, as the newest modification time given out
    pending,       \* dates whose download the browser has begun and not finished
    date_idx,      \* position in the list of dates, from 1
    elapsed,       \* half seconds rename_latest_csv has been waiting
    skipped,       \* observation: the dates skipped as already downloaded
    dated          \* observation: every file that had a date name at some time

cleanvars == <<call, ret, cpc>>
runvars == <<pc, environ_token, input_exists, df, genius, index, lyrics,
             lyrics_list, delay, output, error, log, input>>
chartvars == <<dl_pc, files, clock, pending, date_idx, elapsed, skipped, dated>>
vars == <<cleanvars, runvars, chartvars>>

\* what a part of the program leaves alone: the other parts
notclean == <<runvars, chartvars>>
notrun == <<cleanvars, chartvars>>
notcharts == <<cleanvars, runvars>>

---------------------------------------------------------------------------
(* Python values *)

Str(s) == [kind |-> "str", s |-> s]
NaN == [kind |-> "float", s |-> <<>>]
None == [kind |-> "none", s |-> <<>>]

isinstance_str(v) == v.kind = "str"

\* Python truthiness of an Optional[str]: None and "" are falsy
truthy(v) == v.kind = "str" /\ v.s # <<>>

\* no table (nothing read, nothing written)
NoTable == [columns |-> <<>>, rows |-> <<>>]

\* the values of a part of the program that does not run
IdleClean ==
    /\ call = [fn |-> "none", a |-> None, b |-> <<>>]
    /\ ret = <<>>
    /\ cpc = "idle"

IdleRun ==
    /\ pc = "idle"
    /\ environ_token = None
    /\ input_exists = FALSE
    /\ df = NoTable
    /\ genius = None
    /\ index = 0
    /\ lyrics = None
    /\ lyrics_list = <<>>
    /\ delay = 0
    /\ output = NoTable
    /\ error = "none"
    /\ log = <<>>
    /\ input = NoTable

IdleCharts ==
    /\ dl_pc = "idle"
    /\ files = {}
    /\ clock = 0
    /\ pending = {}
    /\ date_idx = 1
    /\ elapsed = 0
    /\ skipped = {}
    /\ dated = {}

NL == "\n"
IsSpace(c) == c \in {" ", NL, "\t"}
IsDigit(c) == c \in {"0", "1", "2", "3", "4", "5", "6", "7", "8", "9"}

SetMin(S) == CHOOSE x \in S : \A y \in S : x <= y
SetMax(S) == CHOOSE x \in S : \A y \in S : y <= x

\* min(a, b)
min(a, b) == IF a <= b THEN a ELSE b

\* s[i:] and s[:i] with 0-based Python indices, 0 <= i <= len(s)
From(s, i) == SubSeq(s, i + 1, Len(s))
UpTo(s, i) == SubSeq(s, 1, i)

\* sub occurs in s at 0-based index i
OccursAt(s, sub, i) ==
    /\ i >= 0
    /\ i + Len(sub) <= Len(s)
    /\ \A k \in 1..Len(sub) : s[i + k] = sub[k]

\* str.find: the lowest 0-based index of sub in s, -1 when absent
find(s, sub) ==
    LET hits == {i \in 0..(Len(s) - Len(sub)) : OccursAt(s, sub, i)}
    IN  IF hits = {} THEN -1 ELSE SetMin(hits)

\* sub in s
contains(sub, s) == find(s, sub) # -1

endswith(s, sub) == OccursAt(s, sub, Len(s) - Len(sub))

\* str.lstrip(), str.rstrip(), str.strip() with no argument
RECURSIVE lstrip(_)
lstrip(s) ==
    IF s = <<>> THEN <<>>
    ELSE IF IsSpace(Head(s)) THEN lstrip(Tail(s)) ELSE s

RECURSIVE rstrip(_)
rstrip(s) ==
    IF s = <<>> THEN <<>>
    ELSE IF IsSpace(s[Len(s)]) THEN rstrip(SubSeq(s, 1, Len(s) - 1)) ELSE s

strip(s) == rstrip(lstrip(s))

\* " ".join(s.split()): the words of s joined by single spaces
RECURSIVE join_words(_)
join_words(s) ==
    LET t == lstrip(s)
    IN  IF t = <<>> THEN <<>>
        ELSE LET ws == {i \in 1..Len(t) : IsSpace(t[i])}
                 e == IF ws = {} THEN Len(t) ELSE SetMin(ws) - 1
                 rest == join_words(SubSeq(t, e + 1, Len(t)))
             IN  IF rest = <<>> THEN SubSeq(t, 1, e)
                 ELSE SubSeq(t, 1, e) \o <<" ">> \o rest

\* s.split(sep)[0] and s.split(sep, 1)[1], for sep occurring in s
split_first(s, sep) == UpTo(s, find(s, sep))
split_rest(s, sep) == From(s, find(s, sep) + Len(sep))

---------------------------------------------------------------------------
(* Cleaning utilities *)

TITLE_SEPS == << <<"(">>, <<"-">> >>
ARTIST_SEPS == << <<",">>, <<"&">>, <<"f", "e", "a", "t", ".">>, <<"f", "t", ".">> >>
LYRICS_SUFFIX == <<" ", "L", "y", "r", "i", "c", "s">>
EMBED == <<"E", "m", "b", "e", "d">>

\* the loop of clean_track_title over its separators
RECURSIVE cut_pos_loop(_, _, _)
cut_pos_loop(title, seps, cut_pos) ==
    IF seps = <<>> THEN cut_pos
    ELSE LET idx == find(title, Head(seps))
         IN  cut_pos_loop(title, Tail(seps),
                          IF idx # -1 THEN min(cut_pos, idx) ELSE cut_pos)

\* faulty variant: no fallback to the full title
clean_track_title_no_fallback(title) ==
    IF ~isinstance_str(title) THEN <<>>
    ELSE strip(UpTo(title.s, cut_pos_loop(title.s, TITLE_SEPS, Len(title.s))))

clean_track_title(title) ==
    IF ~isinstance_str(title) THEN <<>>
    ELSE LET cut_pos == cut_pos_loop(title.s, TITLE_SEPS, Len(title.s))
             head == strip(UpTo(title.s, cut_pos))
         IN  IF head # <<>> THEN head ELSE strip(title.s)

\* the loop of clean_artist_name: every separator still in the string is applied
RECURSIVE artist_loop(_, _)
artist_loop(artist, seps) ==
    IF seps = <<>> THEN artist
    ELSE artist_loop(IF contains(Head(seps), artist)
                         THEN split_first(artist, Head(seps))
                         ELSE artist,
                     Tail(seps))

\* faulty variant of the loop: it stops after the first separator found
RECURSIVE artist_loop_break(_, _)
artist_loop_break(artist, seps) ==
    IF seps = <<>> THEN artist
    ELSE IF contains(Head(seps), artist)
         THEN split_first(artist, Head(seps))
         ELSE artist_loop_break(artist, Tail(seps))

\* faulty variant: only the first separator found is applied
clean_artist_name_one_sep(artist) ==
    IF ~isinstance_str(artist) THEN <<>>
    ELSE strip(join_words(artist_loop_break(artist.s, ARTIST_SEPS)))

clean_artist_name(artist) ==
    IF ~isinstance_str(artist) THEN <<>>
    ELSE strip(join_words(artist_loop(artist.s, ARTIST_SEPS)))

\* re.sub(r"\d*Embed$", "", text): "$" matches at the end of the text and
\* before a line break that ends the text; the leftmost match starts at the
\* beginning of the digits that precede "Embed"
sub_embed(text) ==
    LET n == Len(text)
        e == IF endswith(text, EMBED) THEN n
             ELSE IF n >= 1 /\ text[n] = NL /\ endswith(UpTo(text, n - 1), EMBED)
                  THEN n - 1
                  ELSE -1
    IN  IF e = -1 THEN text
        ELSE LET w == e - Len(EMBED)   \* characters before "Embed"
                 nd == {i \in 1..w : ~IsDigit(text[i])}
                 d == IF nd = {} THEN 0 ELSE SetMax(nd)
             IN  UpTo(text, d) \o From(text, e)

\* re.sub(r"\[.*?\]", "", text): "." matches no line break, so "[" starts a
\* match only when the next "]" comes before the next line break
RECURSIVE sub_brackets(_)
sub_brackets(text) ==
    IF text = <<>> THEN <<>>
    ELSE IF Head(text) # "[" THEN <<Head(text)>> \o sub_brackets(Tail(text))
    ELSE LET close == {k \in 2..Len(text) : text[k] = "]"}
             j == IF close = {} THEN 0 ELSE SetMin(close)
         IN  IF j # 0 /\ \A m \in 2..(j - 1) : text[m] # NL
             THEN sub_brackets(SubSeq(text, j + 1, Len(text)))
             ELSE <<"[">> \o sub_brackets(Tail(text))

\* clean_lyrics(text, track_name)
clean_lyrics(text, track_name) ==
    IF ~truthy(text) THEN <<>>
    ELSE LET search_term == track_name \o LYRICS_SUFFIX
             t1 == IF contains(search_term, text.s)
                   THEN split_rest(text.s, search_term) ELSE text.s
             t2 == sub_embed(t1)
             t3 == sub_brackets(t2)
         IN  strip(t3)

---------------------------------------------------------------------------
(* Fetch layer *)

\* what genius.search_song does for one query: no match, a song with its
\* lyrics field, or an exception
NoMatch == [kind |-> "no_match", lyrics |-> None, exc |-> "none"]
Song(l) == [kind |-> "song", lyrics |-> l, exc |-> "none"]
Raise(e) == [kind |-> "raise", lyrics |-> None, exc |-> e]

\* exceptions of the provider call: network, auth, malformed response,
\* rate limit
ProviderErrors == {"ConnectionError", "HTTPError401", "JSONDecodeError", "HTTPError429"}

\* the classes "except Exception" catches: all of them derive from Exception
except_Exception == ProviderErrors

\* faulty variant: only network errors are caught
except_ConnectionError == {"ConnectionError"}

\* the except clause of fetch_lyrics
except_clause == except_Exception

\* the query of fetch_lyrics: (clean_title, clean_artist or None)
search_query(title, artist) ==
    LET clean_artist == clean_artist_name(artist)
    IN  <<clean_track_title(title),
          IF clean_artist # <<>> THEN Str(clean_artist) ELSE None>>

\* fetch_lyrics from the search on: `response` is what the provider does
\* with the query.  ret: the return value; calls: searches issued; raised:
\* the exception of the search; propagates: the exception that leaves
\* fetch_lyrics
search_and_clean(response, title, artist) ==
    LET clean_title == clean_track_title(title)
        base == [ret |-> None, calls |-> 1, query |-> search_query(title, artist),
                 raised |-> "none", propagates |-> "none"]
    IN  IF response.kind = "raise"
        THEN [base EXCEPT !.raised = response.exc,
                          !.propagates = IF response.exc \in except_clause
                                         THEN "none" ELSE response.exc]
        ELSE IF response.kind = "song" /\ truthy(response.lyrics)
        THEN LET cleaned == clean_lyrics(response.lyrics, clean_title)
             IN  [base EXCEPT !.ret = IF cleaned # <<>> THEN Str(cleaned) ELSE None]
        ELSE base

\* faulty variant: the search is issued whatever the cleaned title is
fetch_lyrics_unguarded(response, title, artist) ==
    search_and_clean(response, title, artist)

\* fetch_lyrics(genius, title, artist)
fetch_lyrics(response, title, artist) ==
    IF clean_track_title(title) = <<>>
    THEN [ret |-> None, calls |-> 0, query |-> <<>>, raised |-> "none",
          propagates |-> "none"]
    ELSE search_and_clean(response, title, artist)

---------------------------------------------------------------------------
(* Inputs of the utility calls *)

MaxTitleLen == 4
MaxArtistChunks == 4
MaxLyricChunks == 4

\* the texts made of at most n of the chunks
RECURSIVE Texts(_, _)
Texts(chunks, n) ==
    IF n = 0 THEN {<<>>}
    ELSE LET shorter == Texts(chunks, n - 1)
         IN  shorter \cup {t \o c : t \in shorter, c \in chunks}

TitleChars == {<<"a">>, <<" ">>, <<"(">>, <<"-">>}
TitleInputs(n) == {NaN} \cup {Str(s) : s \in Texts(TitleChars, n)}

ArtistChunks == {<<"A">>, <<" ">>, <<",">>, <<"&">>,
                 <<"f", "e", "a", "t", ".">>, <<"f", "t", ".">>}
ArtistInputs(n) == {NaN} \cup {Str(s) : s \in Texts(ArtistChunks, n)}

TrackNames == {<<"T">>, <<"[", "T", "]">>}
LyricChunks(track_name) ==
    {<<"x">>, <<NL>>, <<"[">>, <<"]">>, <<"7">>, EMBED, track_name \o LYRICS_SUFFIX}
LyricInputs(track_name, n) ==
    {None} \cup {Str(s) : s \in Texts(LyricChunks(track_name), n)}

InitClean ==
    /\ \/ \E t \in TitleInputs(MaxTitleLen) :
             call = [fn |-> "clean_track_title", a |-> t, b |-> <<>>]
       \/ \E t \in ArtistInputs(MaxArtistChunks) :
             call = [fn |-> "clean_artist_name", a |-> t, b |-> <<>>]
       \/ \E n \in TrackNames : \E t \in LyricInputs(n, MaxLyricChunks) :
             call = [fn |-> "clean_lyrics", a |-> t, b |-> n]
    /\ ret = <<>>
    /\ cpc = "call"
    /\ IdleRun
    /\ IdleCharts

Call_clean_track_title ==
    /\ cpc = "call" /\ call.fn = "clean_track_title"
    /\ ret' = clean_track_title(call.a)
    /\ cpc' = "ret"
    /\ UNCHANGED <<call, notclean>>

Call_clean_artist_name ==
    /\ cpc = "call" /\ call.fn = "clean_artist_name"
    /\ ret' = clean_artist_name(call.a)
    /\ cpc' = "ret"
    /\ UNCHANGED <<call, notclean>>

Call_clean_lyrics ==
    /\ cpc = "call" /\ call.fn = "clean_lyrics"
    /\ ret' = clean_lyrics(call.a, call.b)
    /\ cpc' = "ret"
    /\ UNCHANGED <<call, notclean>>

NextClean ==
    \/ Call_clean_track_title
    \/ Call_clean_artist_name
    \/ Call_clean_lyrics

SpecClean == InitClean /\ [][NextClean]_vars

---------------------------------------------------------------------------
(* Main pipeline: main() of genius_lyrics_enrichment.py *)

MaxRows == 2

\* politeness delay bounds (1.0 s and 1.5 s), in tenths of a second
MIN_DELAY == 10
MAX_DELAY == 15

Chars_T == <<"T">>
Chars_BT == <<"[", "T", "]">>

\* rows of the input, as (title, artist)
RowSet ==
    { <<NaN, Str(<<"A">>)>>,
      <<Str(<<>>), Str(<<"A">>)>>,
      <<Str(<<" ", " ">>), Str(<<"A">>)>>,
      <<Str(<<"T", " ", "(", "x", ")">>), Str(<<"A", ",", "B">>)>>,
      <<Str(Chars_BT), NaN>> }

\* column layouts: the named columns, unnamed ones (the first two are
\* used), the named columns in the other order, and a table that is too narrow
Layouts ==
    { <<"track_name", "artist_names">>,
      <<"c0", "c1">>,
      <<"artist_names", "track_name">>,
      <<"c0">> }

\* the row of a table with these columns that holds (title, artist)
RowFor(columns, r) ==
    IF Len(columns) < 2 THEN <<r[1]>>
    ELSE IF columns[1] = "artist_names" THEN <<r[2], r[1]>>
    ELSE r

\* the sequences of at most n elements of S
SeqsUpTo(S, n) == UNION {[1..k -> S] : k \in 0..n}

Tables ==
    {[columns |-> c, rows |-> [i \in 1..Len(rs) |-> RowFor(c, rs[i])]] :
        c \in Layouts, rs \in SeqsUpTo(RowSet, MaxRows)}

\* lyrics texts the provider may return
RawLyrics ==
    { Chars_T \o LYRICS_SUFFIX \o <<"[", "V", "]", "x", "7">> \o EMBED,
      Chars_BT \o LYRICS_SUFFIX \o <<"y">>,
      <<"[", "V", "]">> }

Responses ==
    {NoMatch, Song(None), Song(Str(<<>>))}
    \cup {Song(Str(l)) : l \in RawLyrics}
    \cup {Raise(e) : e \in ProviderErrors}

Range(f) == {f[i] : i \in DOMAIN f}

\* row[col]
Cell(columns, row, col) == row[CHOOSE i \in 1..Len(columns) : columns[i] = col]

track_col(columns) ==
    IF "track_name" \in Range(columns) THEN "track_name" ELSE columns[1]
artist_col(columns) ==
    IF "artist_names" \in Range(columns) THEN "artist_names" ELSE columns[2]

InitRun ==
    /\ pc = "start"
    /\ environ_token \in {None, Str(<<>>), Str(<<"k">>)}
    /\ input_exists \in BOOLEAN
    /\ df \in Tables
    /\ genius = None
    /\ index = 0
    /\ lyrics = None
    /\ lyrics_list = <<>>
    /\ delay = 0
    /\ output = NoTable
    /\ error = "none"
    /\ log = <<>>
    /\ input = df

Init == InitRun /\ IdleClean /\ IdleCharts

Fail(e) ==
    /\ pc' = "failed"
    /\ error' = e

\* lines 151-155: the input file must exist, then it is read
LoadDataset ==
    /\ pc = "start"
    /\ IF ~input_exists THEN Fail("FileNotFoundError")
       ELSE pc' = "columns" /\ UNCHANGED error
    /\ UNCHANGED <<notrun, input, environ_token, input_exists, df, genius, index, lyrics,
                   lyrics_list, delay, output, log>>

\* lines 157-165: at least two columns
IdentifyColumns ==
    /\ pc = "columns"
    /\ IF Len(df.columns) < 2 THEN Fail("ValueError")
       ELSE pc' = "auth" /\ UNCHANGED error
    /\ UNCHANGED <<notrun, input, environ_token, input_exists, df, genius, index, lyrics,
                   lyrics_list, delay, output, log>>

\* faulty variant: the session is built without looking at the token
authenticate_genius_unchecked ==
    /\ pc = "auth"
    /\ genius' = environ_token
    /\ pc' = "loop"
    /\ UNCHANGED <<notrun, input, environ_token, input_exists, df, index, lyrics,
                   lyrics_list, delay, output, error, log>>

\* authenticate_genius(): the session, or EnvironmentError without a token
authenticate_genius ==
    /\ pc = "auth"
    /\ IF ~truthy(environ_token)
       THEN Fail("EnvironmentError") /\ UNCHANGED genius
       ELSE /\ genius' = environ_token
            /\ pc' = "loop"
            /\ UNCHANGED error
    /\ UNCHANGED <<notrun, input, environ_token, input_exists, df, index, lyrics,
                   lyrics_list, delay, output, log>>

\* lines 171-175: the next row is read and fetch_lyrics is called
FetchRow ==
    /\ pc = "loop"
    /\ index < Len(df.rows)
    /\ \E response \in Responses :
          LET row == df.rows[index + 1]
              title == Cell(df.columns, row, track_col(df.columns))
              artist == Cell(df.columns, row, artist_col(df.columns))
              r == fetch_lyrics(response, title, artist)
          IN  /\ log' = Append(log, [ev |-> "fetch", row |-> index + 1, title |-> title,
                                     calls |-> r.calls, raised |-> r.raised,
                                     ret |-> r.ret])
              /\ IF r.propagates # "none"
                 THEN Fail(r.propagates) /\ UNCHANGED lyrics
                 ELSE /\ lyrics' = r.ret
                      /\ pc' = "append"
                      /\ UNCHANGED error
    /\ UNCHANGED <<notrun, input, environ_token, input_exists, df, genius, index,
                   lyrics_list, delay, output>>

\* faulty variant: only lyrics that were found are appended
AppendLyricsIfFound ==
    /\ pc = "append"
    /\ lyrics_list' = IF lyrics = None THEN lyrics_list ELSE Append(lyrics_list, lyrics)
    /\ pc' = "sleep"
    /\ UNCHANGED <<notrun, input, environ_token, input_exists, df, genius, index, lyrics,
                   delay, output, error, log>>

\* line 176
AppendLyrics ==
    /\ pc = "append"
    /\ lyrics_list' = Append(lyrics_list, lyrics)
    /\ pc' = "sleep"
    /\ UNCHANGED <<notrun, input, environ_token, input_exists, df, genius, index, lyrics,
                   delay, output, error, log>>

\* faulty variant: no delay after the last row
SleepBetweenRows ==
    /\ pc = "sleep"
    /\ IF index + 1 < Len(df.rows)
       THEN /\ \E d \in MIN_DELAY..MAX_DELAY : delay' = d
            /\ log' = Append(log, [ev |-> "sleep", row |-> index + 1, title |-> None,
                                   calls |-> 0, raised |-> "none", ret |-> None])
       ELSE UNCHANGED <<delay, log>>
    /\ index' = index + 1
    /\ pc' = "loop"
    /\ UNCHANGED <<notrun, input, environ_token, input_exists, df, genius, lyrics,
                   lyrics_list, output, error>>

\* line 178: time.sleep(random.uniform(MIN_DELAY, MAX_DELAY)), then the
\* loop goes on to the next row
Sleep ==
    /\ pc = "sleep"
    /\ \E d \in MIN_DELAY..MAX_DELAY : delay' = d
    /\ log' = Append(log, [ev |-> "sleep", row |-> index + 1, title |-> None,
                           calls |-> 0, raised |-> "none", ret |-> None])
    /\ index' = index + 1
    /\ pc' = "loop"
    /\ UNCHANGED <<notrun, input, environ_token, input_exists, df, genius, lyrics,
                   lyrics_list, output, error>>

\* line 181: df["lyrics"] = lyrics_list; pandas raises ValueError when the
\* list is not as long as the table
AssignLyricsColumn ==
    /\ pc = "loop"
    /\ index = Len(df.rows)
    /\ IF Len(lyrics_list) # Len(df.rows)
       THEN Fail("ValueError") /\ UNCHANGED df
       ELSE /\ df' = [columns |-> Append(df.columns, "lyrics"),
                      rows |-> [i \in 1..Len(df.rows) |->
                                   Append(df.rows[i], lyrics_list[i])]]
            /\ pc' = "save"
            /\ UNCHANGED error
    /\ UNCHANGED <<notrun, input, environ_token, input_exists, genius, index, lyrics,
                   lyrics_list, delay, output, log>>

\* line 184: df.to_excel(OUTPUT_FILE)
SaveDataset ==
    /\ pc = "save"
    /\ output' = df
    /\ pc' = "done"
    /\ UNCHANGED <<notrun, input, environ_token, input_exists, df, genius, index, lyrics,
                   lyrics_list, delay, error, log>>

Next ==
    \/ LoadDataset
    \/ IdentifyColumns
    \/ authenticate_genius
    \/ FetchRow
    \/ AppendLyrics
    \/ Sleep
    \/ AssignLyricsColumn
    \/ SaveDataset

Spec == Init /\ [][Next]_vars

---------------------------------------------------------------------------
(* Chart downloader: main() of spotify-charts-csv-downloader.py *)

\* the dates of generate_dates(START_DATE, END_DATE), numbered from 1
NumDates == 3
Dates == 1..NumDates

\* rename_latest_csv(..., timeout = 10) sleeps half a second per round
RENAME_TIMEOUT == 10

\* f"{date_str}.csv", and the name the browser gives the chart of a date
DateName(d) == <<"date", d>>
RawName(d) == <<"raw", d>>

Names(fs) == {f.name : f \in fs}

\* files.sort(key = getmtime, reverse = True); files[0]
Latest(fs) == CHOOSE f \in fs : \A g \in fs : g.mtime <= f.mtime

\* folders an earlier run may have left: the charts of some dates, each
\* under its date name, downloaded in date order
EarlierRuns ==
    {{[name |-> DateName(d), mtime |-> Cardinality({e \in E : e <= d}), data |-> d] :
        d \in E} : E \in SUBSET Dates}

InitCharts ==
    /\ dl_pc = "loop"
    /\ files \in EarlierRuns
    /\ clock = Cardinality(files)
    /\ pending = {}
    /\ date_idx = 1
    /\ elapsed = 0
    /\ skipped = {}
    /\ dated = files
    /\ IdleClean
    /\ IdleRun

\* lines 158-166: the loop head; a date whose file exists is skipped
NextDate ==
    /\ dl_pc = "loop"
    /\ IF date_idx > NumDates
       THEN /\ dl_pc' = "done"       \* driver.quit(): unfinished downloads are dropped
            /\ pending' = {}
            /\ UNCHANGED <<date_idx, skipped>>
       ELSE IF DateName(date_idx) \in Names(files)
       THEN /\ skipped' = skipped \cup {date_idx}
            /\ date_idx' = date_idx + 1
            /\ UNCHANGED <<dl_pc, pending>>
       ELSE /\ dl_pc' = "click"
            /\ UNCHANGED <<date_idx, skipped, pending>>
    /\ UNCHANGED <<notcharts, files, clock, elapsed, dated>>

\* click_download_button: False when the button is not found; after a
\* click the browser begins the download, or nothing happens
click_download_button ==
    /\ dl_pc = "click"
    /\ \E outcome \in {"not_found", "download_begins", "no_download"} :
          /\ dl_pc' = IF outcome = "not_found" THEN "delay" ELSE "rename"
          /\ pending' = IF outcome = "download_begins"
                        THEN pending \cup {date_idx} ELSE pending
    /\ elapsed' = 0
    /\ UNCHANGED <<notcharts, files, clock, date_idx, skipped, dated>>

\* the browser finishes a download: the file appears under the browser's name
FinishDownload(d) ==
    /\ dl_pc \notin {"idle", "done"}
    /\ d \in pending
    /\ files' = files \cup {[name |-> RawName(d), mtime |-> clock + 1, data |-> d]}
    /\ clock' = clock + 1
    /\ pending' = pending \ {d}
    /\ UNCHANGED <<notcharts, dl_pc, date_idx, elapsed, skipped, dated>>

\* one round of the loop of rename_latest_csv(download_folder, date_str)
rename_latest_csv ==
    /\ dl_pc = "rename"
    /\ IF elapsed >= 2 * RENAME_TIMEOUT
       THEN \* "Could not rename file"
            /\ dl_pc' = "delay"
            /\ UNCHANGED <<files, elapsed, dated>>
       ELSE IF files # {} /\ DateName(date_idx) \notin Names(files)
       THEN LET latest == Latest(files)
                renamed == [latest EXCEPT !.name = DateName(date_idx)]
            IN  /\ files' = (files \ {latest}) \cup {renamed}
                /\ dated' = dated \cup {renamed}
                /\ dl_pc' = "delay"
                /\ UNCHANGED elapsed
       ELSE \* time.sleep(0.5)
            /\ elapsed' = elapsed + 1
            /\ UNCHANGED <<files, dl_pc, dated>>
    /\ UNCHANGED <<notcharts, clock, pending, date_idx, skipped>>

\* lines 171-173: the delay between dates, then the next date
DelayBetweenDates ==
    /\ dl_pc = "delay"
    /\ date_idx' = date_idx + 1
    /\ dl_pc' = "loop"
    /\ UNCHANGED <<notcharts, files, clock, pending, elapsed, skipped, dated>>

NextCharts ==
    \/ NextDate
    \/ click_download_button
    \/ \E d \in Dates : FinishDownload(d)
    \/ rename_latest_csv
    \/ DelayBetweenDates

SpecCharts == InitCharts /\ [][NextCharts]_vars

\* C10: a file named <date>.csv is never renamed, overwritten or removed
\* while later dates are processed: every file that ever had a date name
\* is still in the folder, under that name and with its content.
C10_DatedFilesKept == dated \subseteq files

\* C10, the consequence: every date skipped as already downloaded still
\* has its own file.
C10_SkippedDatesKeepFile ==
    \A d \in skipped : \E f \in files : f.name = DateName(d) /\ f.data = d

---------------------------------------------------------------------------
(* Properties of the cleaning utilities (SpecClean) *)

Returned(fn) == cpc = "ret" /\ call.fn = fn

\* s without its leading and trailing whitespace, stated by positions
Trimmed(s) ==
    LET ns == {i \in 1..Len(s) : ~IsSpace(s[i])}
    IN  IF ns = {} THEN <<>> ELSE SubSeq(s, SetMin(ns), SetMax(ns))

\* the characters of s at the positions K, in order
Pick(s, K) ==
    LET at(j) == CHOOSE i \in K : Cardinality({m \in K : m < i}) = j - 1
    IN  [j \in 1..Cardinality(K) |-> s[at(j)]]

\* s trimmed, every inner run of whitespace replaced by one space: a
\* whitespace character stays (as a space) only when a word precedes it and
\* a word character follows it immediately
Collapsed(s) ==
    LET keep == {i \in 1..Len(s) :
                    \/ ~IsSpace(s[i])
                    \/ /\ \E m \in 1..(i - 1) : ~IsSpace(s[m])
                       /\ i < Len(s)
                       /\ ~IsSpace(s[i + 1])}
        t == [i \in 1..Len(s) |-> IF IsSpace(s[i]) THEN " " ELSE s[i]]
    IN  Pick(t, keep)

\* the separators of the artist credit that occur in s, by priority
SepsPresent(s) == {k \in 1..Len(ARTIST_SEPS) : contains(ARTIST_SEPS[k], s)}

C4_OneSeparatorArtist(s) ==
    IF SepsPresent(s) = {} THEN Collapsed(s)
    ELSE Collapsed(UpTo(s, find(s, ARTIST_SEPS[SetMin(SepsPresent(s))])))

C4_EarliestSeparatorArtist(s) ==
    LET occ == {find(s, ARTIST_SEPS[k]) : k \in SepsPresent(s)}
    IN  IF occ = {} THEN Collapsed(s) ELSE Collapsed(UpTo(s, SetMin(occ)))

\* C4 as claimed: normalize_artist applies only the highest-priority
\* separator (",", "&", "feat.", "ft." in that order) that occurs in the
\* credit, keeps the text before its first occurrence, applies no further
\* separator, then collapses whitespace and trims; non-text gives "".
C4_OnlyOneSeparator ==
    Returned("clean_artist_name") =>
        ret = IF isinstance_str(call.a) THEN C4_OneSeparatorArtist(call.a.s)
              ELSE <<>>

\* C4 amended: normalize_artist applies every separator that still occurs,
\* in the order ",", "&", "feat.", "ft.", each to the result of the one
\* before, so the result is the text before the earliest occurrence of any
\* of the four separators, whitespace runs replaced by one space, trimmed;
\* non-text gives "".
C4_EarliestSeparator ==
    Returned("clean_artist_name") =>
        ret = IF isinstance_str(call.a) THEN C4_EarliestSeparatorArtist(call.a.s)
              ELSE <<>>

\* a credit in which "&" occurs before "," has been normalized
C4_Witness ==
    /\ Returned("clean_artist_name")
    /\ isinstance_str(call.a)
    /\ contains(<<",">>, call.a.s)
    /\ contains(<<"&">>, call.a.s)
    /\ find(call.a.s, <<"&">>) < find(call.a.s, <<",">>)
    /\ ret # <<>>

C5_ExpectedTitle(s) ==
    LET P == {i \in 1..Len(s) : s[i] \in {"(", "-"}}
        cut == IF P = {} THEN Len(s) ELSE SetMin(P) - 1
        head == Trimmed(SubSeq(s, 1, cut))
    IN  IF head # <<>> THEN head ELSE Trimmed(s)

\* C5: for a text title normalize_title returns the title cut at the
\* smaller of the first "(" and the first "-" and trimmed, or the full
\* trimmed title when that is empty; a non-text title gives ""; so the
\* result is empty only for a non-text or whitespace-only title.
C5_NormalizeTitle ==
    Returned("clean_track_title") =>
        /\ ret = IF isinstance_str(call.a) THEN C5_ExpectedTitle(call.a.s) ELSE <<>>
        /\ ret = <<>> =>
              \/ ~isinstance_str(call.a)
              \/ \A i \in 1..Len(call.a.s) : IsSpace(call.a.s[i])

\* a title that starts with a descriptor character fell back to the full title
C5_Witness ==
    /\ Returned("clean_track_title")
    /\ isinstance_str(call.a)
    /\ Len(call.a.s) >= 2
    /\ call.a.s[1] \in {"(", "-"}
    /\ ret = call.a.s

\* every "[" up to the next "]" removed, line breaks or not
RECURSIVE NoMarkers(_)
NoMarkers(s) ==
    IF s = <<>> THEN <<>>
    ELSE LET close == {k \in 2..Len(s) : s[k] = "]"}
         IN  IF Head(s) = "[" /\ close # {}
             THEN NoMarkers(SubSeq(s, SetMin(close) + 1, Len(s)))
             ELSE <<Head(s)>> \o NoMarkers(Tail(s))

C6_ClaimedLyrics(s, track_name) ==
    LET banner == track_name \o LYRICS_SUFFIX
        occ == {i \in 0..Len(s) : OccursAt(s, banner, i)}
        rest == IF occ = {} THEN s ELSE From(s, SetMin(occ) + Len(banner))
    IN  Trimmed(NoMarkers(sub_embed(rest)))

\* C6: clean discards everything up to and including the first
\* "<track_title> Lyrics" (also when the title holds a bracketed token),
\* then removes a trailing digits+"Embed", then every "[...]" marker, then
\* trims; empty or absent text gives "".
C6_BannerEmbedBracketsTrim ==
    Returned("clean_lyrics") =>
        ret = IF truthy(call.a) THEN C6_ClaimedLyrics(call.a.s, call.b) ELSE <<>>

\* C7: the output of clean holds no bracketed marker: no "[" of the output
\* is followed later in the output by a "]".
C7_NoMarkerInOutput ==
    Returned("clean_lyrics") =>
        ~ \E i, j \in 1..Len(ret) : i < j /\ ret[i] = "[" /\ ret[j] = "]"

---------------------------------------------------------------------------
(* Properties of the enrichment run (Spec) *)

IsFetch(e) == e.ev = "fetch"
Fetches == SelectSeq(log, IsFetch)

\* the title is not text, or is empty or whitespace only
UnusableTitle(title) ==
    \/ ~isinstance_str(title)
    \/ \A i \in 1..Len(title.s) : IsSpace(title.s[i])

StartupErrors == {"FileNotFoundError", "ValueError", "EnvironmentError"}

\* C1: over N input rows the lyrics column has exactly N entries, entry i
\* belongs to input row i, and entry i is what the fetch for row i returned:
\* null for Missing, the text otherwise.
C1_LyricsColumnInInputOrder ==
    /\ Len(lyrics_list) <= Len(Fetches)
    /\ \A i \in 1..Len(lyrics_list) :
          /\ Fetches[i].row = i
          /\ Fetches[i].title =
                Cell(input.columns, input.rows[i], track_col(input.columns))
          /\ lyrics_list[i] = Fetches[i].ret
    /\ pc = "loop" => Len(lyrics_list) = index
    /\ pc = "sleep" => Len(lyrics_list) = index + 1
    /\ pc = "done" =>
          /\ Len(output.rows) = Len(input.rows)
          /\ \A i \in 1..Len(input.rows) :
                output.rows[i] = Append(input.rows[i], Fetches[i].ret)

\* a run of two rows ended with a Missing entry first and a text second
C1_Witness ==
    /\ pc = "done"
    /\ Len(input.rows) = 2
    /\ output.rows[1][3] = None
    /\ output.rows[2][3] # None

\* C2: whatever exception the provider search raises, fetch returns
\* Missing and lets no exception out, so the run goes on with the next row
\* and ends with one entry per row.
C2_ProviderErrorsAbsorbed ==
    /\ \A k \in 1..Len(log) :
          (log[k].ev = "fetch" /\ log[k].raised # "none") => log[k].ret = None
    /\ error \notin ProviderErrors
    /\ pc = "failed" => (error \in StartupErrors /\ log = <<>>)
    /\ pc = "done" => Len(lyrics_list) = Len(input.rows)

\* a run of two rows ended after the provider raised on both
C2_Witness ==
    /\ pc = "done"
    /\ Len(lyrics_list) = 2
    /\ Fetches[1].raised = "HTTPError429"
    /\ Fetches[2].raised = "ConnectionError"

\* C3: for a title that is not text, empty or whitespace only, fetch
\* returns Missing and issues no provider search.
C3_NoSearchForEmptyTitle ==
    \A k \in 1..Len(log) :
        (log[k].ev = "fetch" /\ UnusableTitle(log[k].title)) =>
            (log[k].calls = 0 /\ log[k].ret = None)

\* a non-text title and a whitespace title have been fetched
C3_Witness ==
    /\ Len(Fetches) = 2
    /\ ~isinstance_str(Fetches[1].title)
    /\ isinstance_str(Fetches[2].title) /\ Fetches[2].title.s # <<>>
    /\ UnusableTitle(Fetches[2].title)

\* C8: every fetch is followed by exactly one delay before the next fetch
\* or the end of the run, after the last row too and whatever the fetch
\* returned; rows are fetched one at a time in input order.
C8_DelayAfterEveryFetch ==
    /\ \A k \in 1..Len(log) :
          /\ log[k].ev = IF k % 2 = 1 THEN "fetch" ELSE "sleep"
          /\ log[k].row = (k + 1) \div 2
    /\ pc = "loop" => Len(log) = 2 * index
    /\ pc \in {"save", "done"} => Len(log) = 2 * Len(input.rows)

\* a run ended whose first fetch issued no search and whose last found lyrics
C8_Witness ==
    /\ pc = "done"
    /\ Len(log) = 4
    /\ log[1].calls = 0 /\ log[1].ret = None
    /\ log[3].ret # None
    /\ log[4].ev = "sleep"

\* C9: without the credential the run fails before any row is processed:
\* no fetch, no delay, no lyrics entry, no output table, and the missing
\* credential is never a per-row Missing.
C9_MissingCredentialIsFatal ==
    ~truthy(environ_token) =>
        /\ pc \in {"start", "columns", "auth", "failed"}
        /\ pc = "failed" => error \in StartupErrors
        /\ genius = None
        /\ log = <<>>
        /\ lyrics_list = <<>>
        /\ delay = 0
        /\ output = NoTable

\* a run over a table with rows failed for the missing credential
C9_Witness ==
    /\ pc = "failed"
    /\ error = "EnvironmentError"
    /\ environ_token = None
    /\ Len(input.rows) = 2

=============================================================================
